---- MODULE Spec2Model ----
(***************************************************************************)
(* Model of secure_chat.py: one TCP connection between two peers, a        *)
(* receiver thread (receive_thread_func) that hands every recv() result to *)
(* gpg, and the main thread's send loop.                                   *)
(*                                                                         *)
(* Bytes are one-character strings ("F", ":", "\n", ...); the two bytes of *)
(* the UTF-8 encoding of U+00E9 are "xC3" and "xA9".  Characters of a      *)
(* decoded str are the same strings for ASCII and "U00E9" for that one     *)
(* non-ASCII character.                                                    *)
(***************************************************************************)
EXTENDS Integers, Sequences, FiniteSets, TLC

VARIABLES
    inWire,      \* bytes the peer has written that recv() has not returned yet
    sent,        \* the frames the peer's send path has written, in order
    peerOpen,    \* the peer has not closed its end
    truncated,   \* the peer's stream ended inside the last frame of sent
    rxpc,        \* receiver thread: "recv", "more", "gpgFile", "gpgText", "close", "exit", "dead"
    recvLive,    \* the pending recv() was issued while the socket object was open
    rxUnit,      \* the receiver's locals: data, and the kind, filename and cipher_bytes
                 \* it took from data and hands to gpg
    rxOutcome,   \* "none", "pending", "fail" or the plaintext gpg returned
    nRead,       \* number of bytes recv() has returned so far
    unitRead,    \* bytes recv() returned for rxUnit (line 127, and line 152 if it ran)
    failedOnce,  \* some earlier gpg invocation of the receiver failed
    mainpc,      \* main thread: "input", "sendFile", "sendText", "finally", "done"
    txBytes,     \* the bytes the main thread is about to pass to sendall
    outFrames,   \* number of sendall calls that succeeded
    lastCmd,     \* what became of the user's last command
    connClosed,  \* connection.close() has been called
    closeCalls,  \* number of connection.close() calls
    closing,     \* a quit request, an EOF or a stream error has occurred
    lateIO,      \* a recv or sendall was issued after closing became true
    proc,        \* "running", "os_exit" (line 175) or "main_exit" (end of script)
    setup,       \* the script before the threads: "accept" (blocked at line 112) or "established"
    attempts,    \* number of inbound connection attempts made to the listening socket
    backlog,     \* the attempts the listening socket holds, not yet returned by accept()
    accepted,    \* the attempts accept() has returned, in order
    connection   \* the attempt whose socket is the session's stream (0: none yet)

vars == <<inWire, sent, peerOpen, truncated, rxpc, recvLive, rxUnit, rxOutcome,
          nRead, unitRead, failedOnce, mainpc, txBytes, outFrames, lastCmd,
          connClosed, closeCalls, closing, lateIO, proc,
          setup, attempts, backlog, accepted, connection>>

rxVars == <<inWire, sent, peerOpen, truncated, rxpc, recvLive, rxUnit, rxOutcome,
            nRead, unitRead, failedOnce>>
mainVars == <<mainpc, txBytes, outFrames, lastCmd>>
sessVars == <<connClosed, closeCalls, closing, lateIO, proc>>
estVars == <<setup, attempts, backlog, accepted, connection>>

(***************************************************************************)
(* Bounds of the model.                                                    *)
(***************************************************************************)
MaxPeerFrames == 2
MaxSends == 1
MaxSessionFrames == 1
MaxAttempts == 3

(***************************************************************************)
(* Program constants.                                                      *)
(***************************************************************************)
RecvSize == 4096
MoreSize == 65536
ListenBacklog == 1

Min(a, b) == IF a < b THEN a ELSE b

(***************************************************************************)
(* Sequence helpers standing for Python's str / bytes methods.             *)
(***************************************************************************)
\* s[n:] for 0 <= n
Drop(s, n) == IF n >= Len(s) THEN <<>> ELSE SubSeq(s, n + 1, Len(s))

\* s[:n]
Take(s, n) == SubSeq(s, 1, Min(n, Len(s)))

\* s.find(x) + 1: the first position of x in s, 0 when absent
IndexOf(s, x) ==
    IF \E i \in 1..Len(s) : s[i] = x
    THEN CHOOSE i \in 1..Len(s) : s[i] = x /\ \A j \in 1..(i - 1) : s[j] # x
    ELSE 0

\* s.rfind(x) + 1
LastIndexOf(s, x) ==
    IF \E i \in 1..Len(s) : s[i] = x
    THEN CHOOSE i \in 1..Len(s) : s[i] = x /\ \A j \in (i + 1)..Len(s) : s[j] # x
    ELSE 0

StartsWith(s, p) == Len(s) >= Len(p) /\ SubSeq(s, 1, Len(p)) = p

\* p occurs in s as a contiguous block
Contains(s, p) ==
    \E i \in 0..(Len(s) - Len(p)) : SubSeq(s, i + 1, i + Len(p)) = p

(***************************************************************************)
(* UTF-8.                                                                  *)
(***************************************************************************)
LeadByte == "xC3"
ContByte == "xA9"
EAcute == "U00E9"

RECURSIVE Utf8Encode(_)
Utf8Encode(chars) ==
    IF chars = <<>> THEN <<>>
    ELSE (IF Head(chars) = EAcute THEN <<LeadByte, ContByte>> ELSE <<Head(chars)>>)
         \o Utf8Encode(Tail(chars))

\* bytes.decode('utf-8'): [ok |-> TRUE, chars |-> the characters], or
\* ok = FALSE where Python raises UnicodeDecodeError (a lead byte without
\* its continuation byte, or a continuation byte on its own).
DecodeError == [ok |-> FALSE, chars |-> <<>>]

RECURSIVE Utf8Decode(_)
Utf8Decode(bytes) ==
    IF bytes = <<>> THEN [ok |-> TRUE, chars |-> <<>>]
    ELSE IF Head(bytes) = ContByte THEN DecodeError
    ELSE IF Head(bytes) = LeadByte
         THEN IF Len(bytes) >= 2 /\ bytes[2] = ContByte
              THEN LET rest == Utf8Decode(Drop(bytes, 2))
                   IN  IF rest.ok THEN [ok |-> TRUE, chars |-> <<EAcute>> \o rest.chars]
                       ELSE DecodeError
              ELSE DecodeError
    ELSE LET rest == Utf8Decode(Tail(bytes))
         IN  IF rest.ok THEN [ok |-> TRUE, chars |-> <<Head(bytes)>> \o rest.chars]
             ELSE DecodeError

(***************************************************************************)
(* The crypto layer: gpg, an external program.  A ciphertext is an         *)
(* ASCII-armored block: a begin marker, a body, a final newline.  The body *)
(* "X" stands for a block whose body was corrupted in transit.             *)
(***************************************************************************)
Plain == {"p", "q"}
CorruptBody == "X"

\* gpg --encrypt --armor on plaintext p
Seal(p) == <<"-", p, "\n">>

Corrupt == Seal(CorruptBody)
PlainOf(c) == c[2]
ValidCiphers == {Seal(p) : p \in Plain}

\* The results gpg --decrypt can give on the input c: the plaintext of a
\* well-formed block; "fail" (CalledProcessError) on a corrupted or
\* truncated one; on input that holds a well-formed block among other
\* bytes gpg may skip the other bytes or reject the input.
GpgFail == "fail"
GpgOutcomes(c) ==
    IF c \in ValidCiphers THEN {PlainOf(c)}
    ELSE {GpgFail} \cup {PlainOf(v) : v \in {w \in ValidCiphers : Contains(c, w)}}

(***************************************************************************)
(* The send path's wire format (main loop, lines 215-217 and 229).         *)
(***************************************************************************)
FilePrefix == <<"F", "I", "L", "E", ":">>

\* os.path.basename(filepath)
Basename(path) == Drop(path, LastIndexOf(path, "/"))

\* f"FILE:{name}:\n".encode('utf-8')
FileHeader(name) == Utf8Encode(FilePrefix \o name \o <<":", "\n">>)

\* header + encrypted_data
SendFileBytes(filepath, encrypted) == FileHeader(Basename(filepath)) \o encrypted

\* a text message travels as the bare ciphertext
SendTextBytes(cipher) == cipher

TextFrame(cipher) ==
    [kind |-> "text", filename |-> <<>>, payload |-> cipher,
     bytes |-> SendTextBytes(cipher)]

FileFrame(filepath, cipher) ==
    [kind |-> "file", filename |-> Basename(filepath), payload |-> cipher,
     bytes |-> SendFileBytes(filepath, cipher)]

\* a file-transfer frame written by a peer that declares any name it likes
RawFileFrame(name, cipher) ==
    [kind |-> "file", filename |-> name, payload |-> cipher,
     bytes |-> FileHeader(name) \o cipher]

(***************************************************************************)
(* The receive path's interpretation of one recv() result (lines 136-154). *)
(***************************************************************************)
DefaultFilename == <<"received_file">>

\* header.split(":", 2)[1] when the split has two parts, else the default
HeaderFilename(header) ==
    LET c1 == IndexOf(header, ":")
        rest == Drop(header, c1)
        c2 == IndexOf(rest, ":")
    IN  IF c1 = 0 THEN DefaultFilename
        ELSE IF c2 = 0 THEN rest ELSE Take(rest, c2 - 1)

\* data[len(header)+1:], len(header) counted in characters
CipherBytes(data, header) == Drop(data, Len(header) + 1)

Interpret(data) ==
    LET dec == Utf8Decode(data)
        text == dec.chars
        nl == IndexOf(text, "\n")
        header == IF nl = 0 THEN text ELSE Take(text, nl - 1)
        armored == IF nl = 0 THEN <<>> ELSE Drop(text, nl)
    IN  IF dec.ok /\ text # <<>> /\ StartsWith(text, FilePrefix)
        THEN [kind |-> "file",
              filename |-> HeaderFilename(header),
              needMore |-> (armored = <<>> /\ nl # 0),
              cipher |-> CipherBytes(data, header)]
        ELSE [kind |-> "text", filename |-> <<>>, needMore |-> FALSE, cipher |-> data]

(***************************************************************************)
(* What the peer can write: frames of the send path, for a few file paths  *)
(* and ciphertexts, and file frames of a peer that declares a name with a  *)
(* path separator in it.                                                   *)
(***************************************************************************)
SessionFrames == {TextFrame(Seal("p")), FileFrame(<<"d", "/", "a">>, Seal("q"))}

DroppedFrames == SessionFrames

\* a file frame of a peer that ran gpg without --armor: after the header
\* come bytes that are not UTF-8 text
BinaryFrame == RawFileFrame(<<"a">>, <<ContByte>>)

\* bytes that are no frame of the protocol: a stray byte that begins neither
\* an armored block nor a "FILE:" header (and is no UTF-8 text either)
MalformedFrame ==
    [kind |-> "malformed", filename |-> <<>>, payload |-> <<>>, bytes |-> <<ContByte>>]

PeerFrames ==
    SessionFrames
    \cup {TextFrame(Corrupt), FileFrame(<<"d", "/", "a">>, Corrupt), MalformedFrame}

CodecPaths == {<<"a">>, <<"d", "/", "a">>, <<"a", ":", "b">>, <<EAcute>>, <<"a", EAcute>>}
HostileNames == {<<"/", "a">>, <<".", ".", "/", "a">>}
CodecCiphers == ValidCiphers \cup {Corrupt}

CodecFrames ==
    {TextFrame(c) : c \in CodecCiphers}
    \cup {FileFrame(path, c) : path \in CodecPaths, c \in CodecCiphers}
    \cup {RawFileFrame(name, c) : name \in HostileNames, c \in CodecCiphers}

\* the stream offset at which the k-th frame the peer wrote ends
RECURSIVE FrameEnd(_, _)
FrameEnd(frames, k) ==
    IF k = 0 THEN 0 ELSE FrameEnd(frames, k - 1) + Len(frames[k].bytes)

NoUnit == [kind |-> "none", filename |-> <<>>, cipher |-> <<>>, data |-> <<>>]

Init ==
    /\ inWire = <<>>
    /\ sent = <<>>
    /\ peerOpen = TRUE
    /\ truncated = FALSE
    /\ rxpc = "recv"
    /\ recvLive = TRUE
    /\ rxUnit = NoUnit
    /\ rxOutcome = "none"
    /\ nRead = 0
    /\ unitRead = 0
    /\ failedOnce = FALSE
    /\ mainpc = "input"
    /\ txBytes = <<>>
    /\ outFrames = 0
    /\ lastCmd = "none"
    /\ connClosed = FALSE
    /\ closeCalls = 0
    /\ closing = FALSE
    /\ lateIO = FALSE
    /\ proc = "running"
    /\ setup = "established"
    /\ attempts = 1
    /\ backlog = <<>>
    /\ accepted = <<1>>
    /\ connection = 1

(***************************************************************************)
(* The peer.                                                               *)
(***************************************************************************)
PeerSend(f, max) ==
    /\ proc = "running"
    /\ peerOpen
    /\ Len(sent) < max
    /\ sent' = Append(sent, f)
    /\ inWire' = inWire \o f.bytes
    /\ UNCHANGED <<peerOpen, truncated, rxpc, recvLive, rxUnit, rxOutcome, nRead,
                   unitRead, failedOnce>>
    /\ UNCHANGED <<mainVars, sessVars>>
    /\ UNCHANGED estVars

\* the peer's connection goes down while its sendall is writing frame f:
\* the first k bytes arrive, then the stream ends
PeerDrop(f, k, max) ==
    /\ proc = "running"
    /\ peerOpen
    /\ Len(sent) < max
    /\ k \in 1..(Len(f.bytes) - 1)
    /\ sent' = Append(sent, f)
    /\ inWire' = inWire \o Take(f.bytes, k)
    /\ peerOpen' = FALSE
    /\ truncated' = TRUE
    /\ UNCHANGED <<rxpc, recvLive, rxUnit, rxOutcome, nRead, unitRead, failedOnce>>
    /\ UNCHANGED <<mainVars, sessVars>>
    /\ UNCHANGED estVars

PeerClose ==
    /\ proc = "running"
    /\ peerOpen
    /\ peerOpen' = FALSE
    /\ UNCHANGED <<inWire, sent, truncated, rxpc, recvLive, rxUnit, rxOutcome, nRead,
                   unitRead, failedOnce>>
    /\ UNCHANGED <<mainVars, sessVars>>
    /\ UNCHANGED estVars

(***************************************************************************)
(* The receiver thread, receive_thread_func (lines 124-175).               *)
(***************************************************************************)
\* line 127 returns n bytes; lines 136-154 interpret them and either start
\* gpg on them or, for a file header that came without payload, issue the
\* follow-up recv of line 152.
RxRecvData(n) ==
    /\ proc = "running"
    /\ rxpc = "recv"
    /\ recvLive
    /\ n \in 1..Min(Len(inWire), RecvSize)
    /\ LET data == Take(inWire, n)
           r == Interpret(data)
       IN  /\ inWire' = Drop(inWire, n)
           /\ nRead' = nRead + n
           /\ rxUnit' = [kind |-> r.kind, filename |-> r.filename, cipher |-> r.cipher,
                         data |-> data]
           /\ unitRead' = n
           /\ IF r.needMore
              THEN /\ rxpc' = "more"
                   /\ recvLive' = ~connClosed
                   /\ lateIO' = (lateIO \/ closing)
                   /\ rxOutcome' = "none"
              ELSE /\ rxpc' = (IF r.kind = "file" THEN "gpgFile" ELSE "gpgText")
                   /\ rxOutcome' = "pending"
                   /\ UNCHANGED <<recvLive, lateIO>>
    /\ UNCHANGED <<sent, peerOpen, truncated, failedOnce>>
    /\ UNCHANGED <<mainVars, connClosed, closeCalls, closing, proc>>
    /\ UNCHANGED estVars

\* line 127 returns b"": lines 131-134
RxRecvEOF ==
    /\ proc = "running"
    /\ rxpc = "recv"
    /\ recvLive
    /\ inWire = <<>>
    /\ ~peerOpen
    /\ rxpc' = "close"
    /\ closing' = TRUE
    /\ rxUnit' = NoUnit
    /\ rxOutcome' = "none"
    /\ unitRead' = 0
    /\ UNCHANGED <<inWire, sent, peerOpen, truncated, recvLive,
                   nRead, failedOnce>>
    /\ UNCHANGED <<mainVars, connClosed, closeCalls, lateIO, proc>>
    /\ UNCHANGED estVars

\* line 127 raises (the socket was closed locally, or the network failed):
\* lines 128-130
RxRecvError ==
    /\ proc = "running"
    /\ rxpc = "recv"
    /\ rxpc' = "close"
    /\ closing' = TRUE
    /\ rxUnit' = NoUnit
    /\ rxOutcome' = "none"
    /\ unitRead' = 0
    /\ UNCHANGED <<inWire, sent, peerOpen, truncated, recvLive,
                   nRead, failedOnce>>
    /\ UNCHANGED <<mainVars, connClosed, closeCalls, lateIO, proc>>
    /\ UNCHANGED estVars

\* line 152 returns n bytes; line 153 decodes them into armored, which
\* nothing reads afterwards; line 154 takes cipher_bytes from data.  A
\* UnicodeDecodeError at line 153 is caught nowhere: the thread ends.
RxMoreData(n) ==
    /\ proc = "running"
    /\ rxpc = "more"
    /\ recvLive
    /\ n \in 1..Min(Len(inWire), MoreSize)
    /\ LET more_data == Take(inWire, n)
       IN  IF Utf8Decode(more_data).ok
           THEN /\ rxpc' = "gpgFile"
                /\ rxOutcome' = "pending"
           ELSE /\ rxpc' = "dead"
                /\ UNCHANGED rxOutcome
    /\ inWire' = Drop(inWire, n)
    /\ nRead' = nRead + n
    /\ unitRead' = unitRead + n
    /\ UNCHANGED <<sent, peerOpen, truncated, recvLive, rxUnit, failedOnce>>
    /\ UNCHANGED <<mainVars, sessVars>>
    /\ UNCHANGED estVars

\* line 152 returns b"": armored = "", and gpg runs on the empty cipher_bytes
RxMoreEOF ==
    /\ proc = "running"
    /\ rxpc = "more"
    /\ recvLive
    /\ inWire = <<>>
    /\ ~peerOpen
    /\ rxpc' = "gpgFile"
    /\ rxOutcome' = "pending"
    /\ closing' = TRUE
    /\ UNCHANGED <<inWire, sent, peerOpen, truncated, recvLive, rxUnit, nRead, unitRead,
                   failedOnce>>
    /\ UNCHANGED <<mainVars, connClosed, closeCalls, lateIO, proc>>
    /\ UNCHANGED estVars

\* line 152 raises: no handler encloses it, the thread ends without
\* reaching lines 171-175
RxMoreError ==
    /\ proc = "running"
    /\ rxpc = "more"
    /\ rxpc' = "dead"
    /\ closing' = TRUE
    /\ UNCHANGED <<inWire, sent, peerOpen, truncated, recvLive, rxUnit, rxOutcome,
                   nRead, unitRead, failedOnce>>
    /\ UNCHANGED <<mainVars, connClosed, closeCalls, lateIO, proc>>
    /\ UNCHANGED estVars

\* what follows a gpg run: the loop returns to line 127 and issues recv
BackToRecv ==
    /\ rxpc' = "recv"
    /\ recvLive' = ~connClosed
    /\ lateIO' = (lateIO \/ closing)

\* lines 155-163: gpg --decrypt -o filename ends; a failure is reported
RxGpgFile(o) ==
    /\ proc = "running"
    /\ rxpc = "gpgFile"
    /\ o \in GpgOutcomes(rxUnit.cipher)
    /\ rxOutcome' = o
    /\ failedOnce' = (failedOnce \/ o = GpgFail)
    /\ BackToRecv
    /\ UNCHANGED <<inWire, sent, peerOpen, truncated, rxUnit, nRead, unitRead>>
    /\ UNCHANGED <<mainVars, connClosed, closeCalls, closing, proc>>
    /\ UNCHANGED estVars

\* a receiver thread that acknowledges each text message on the stream
\* (the code's thread never calls sendall): what C12 rules out
RxGpgTextAck(o) ==
    /\ proc = "running"
    /\ rxpc = "gpgText"
    /\ o \in GpgOutcomes(rxUnit.cipher)
    /\ rxOutcome' = o
    /\ failedOnce' = (failedOnce \/ o = GpgFail)
    /\ BackToRecv
    /\ outFrames' = outFrames + 1
    /\ UNCHANGED <<inWire, sent, peerOpen, truncated, rxUnit, nRead, unitRead>>
    /\ UNCHANGED <<mainpc, txBytes, lastCmd, connClosed, closeCalls, closing, proc>>
    /\ UNCHANGED estVars

\* lines 165-170: decrypt_message(data) returns the plaintext or None
RxGpgText(o) ==
    /\ proc = "running"
    /\ rxpc = "gpgText"
    /\ o \in GpgOutcomes(rxUnit.cipher)
    /\ rxOutcome' = o
    /\ failedOnce' = (failedOnce \/ o = GpgFail)
    /\ BackToRecv
    /\ UNCHANGED <<inWire, sent, peerOpen, truncated, rxUnit, nRead, unitRead>>
    /\ UNCHANGED <<mainVars, connClosed, closeCalls, closing, proc>>
    /\ UNCHANGED estVars

\* lines 171-174
RxClose ==
    /\ proc = "running"
    /\ rxpc = "close"
    /\ rxpc' = "exit"
    /\ connClosed' = TRUE
    /\ closeCalls' = closeCalls + 1
    /\ UNCHANGED <<inWire, sent, peerOpen, truncated, recvLive, rxUnit, rxOutcome,
                   nRead, unitRead, failedOnce>>
    /\ UNCHANGED <<mainVars, closing, lateIO, proc>>
    /\ UNCHANGED estVars

\* line 175: os._exit(0)
RxExit ==
    /\ proc = "running"
    /\ rxpc = "exit"
    /\ proc' = "os_exit"
    /\ UNCHANGED <<rxVars, mainVars, connClosed, closeCalls, closing, lateIO>>
    /\ UNCHANGED estVars

(***************************************************************************)
(* The main thread's send loop (lines 182-239).                            *)
(***************************************************************************)
LocalPaths == {<<"d", "/", "a">>}
FileResults == {"notfound", "readfail", "encfail", "ok"}
TextResults == {"encfail", "ok"}

\* lines 185-186: an empty line
MainEmpty ==
    /\ proc = "running"
    /\ mainpc = "input"
    /\ lastCmd' = "skip"
    /\ UNCHANGED <<rxVars, mainpc, txBytes, outFrames, sessVars>>
    /\ UNCHANGED estVars

\* lines 187-189: /quit leaves the loop
MainQuit ==
    /\ proc = "running"
    /\ mainpc = "input"
    /\ mainpc' = "finally"
    /\ lastCmd' = "quit"
    /\ closing' = TRUE
    /\ UNCHANGED <<rxVars, txBytes, outFrames, connClosed, closeCalls, lateIO, proc>>
    /\ UNCHANGED estVars

\* lines 233-234: input() raises EOFError or KeyboardInterrupt
MainInterrupt ==
    /\ proc = "running"
    /\ mainpc = "input"
    /\ mainpc' = "finally"
    /\ lastCmd' = "interrupt"
    /\ closing' = TRUE
    /\ UNCHANGED <<rxVars, txBytes, outFrames, connClosed, closeCalls, lateIO, proc>>
    /\ UNCHANGED estVars

\* lines 190-195: /send without a path
MainSendUsage ==
    /\ proc = "running"
    /\ mainpc = "input"
    /\ lastCmd' = "usage"
    /\ UNCHANGED <<rxVars, mainpc, txBytes, outFrames, sessVars>>
    /\ UNCHANGED estVars

\* lines 196-215: /send <filepath>; the file is missing (197-199), cannot
\* be read (200-205), gpg fails on it (206-214), or the frame is built
MainSendFile(filepath, p, res) ==
    /\ proc = "running"
    /\ mainpc = "input"
    /\ IF res = "ok"
       THEN /\ outFrames < MaxSends
            /\ txBytes' = SendFileBytes(filepath, Seal(p))
            /\ mainpc' = "sendFile"
            /\ lastCmd' = "sending"
       ELSE /\ lastCmd' = res
            /\ UNCHANGED <<mainpc, txBytes>>
    /\ UNCHANGED <<rxVars, outFrames, sessVars>>
    /\ UNCHANGED estVars

\* a send loop that gives up when a text message cannot be encrypted (the
\* code's loop says "Not sent." and continues): what C13 rules out
MainTextFatal(p, res) ==
    /\ proc = "running"
    /\ mainpc = "input"
    /\ IF res = "ok"
       THEN /\ outFrames < MaxSends
            /\ txBytes' = SendTextBytes(Seal(p))
            /\ mainpc' = "sendText"
            /\ lastCmd' = "sending"
       ELSE /\ lastCmd' = res
            /\ mainpc' = "finally"
            /\ UNCHANGED txBytes
    /\ UNCHANGED <<rxVars, outFrames, sessVars>>
    /\ UNCHANGED estVars

\* lines 222-227: a text line; encrypt_message returns None or the ciphertext
MainText(p, res) ==
    /\ proc = "running"
    /\ mainpc = "input"
    /\ IF res = "ok"
       THEN /\ outFrames < MaxSends
            /\ txBytes' = SendTextBytes(Seal(p))
            /\ mainpc' = "sendText"
            /\ lastCmd' = "sending"
       ELSE /\ lastCmd' = res
            /\ UNCHANGED <<mainpc, txBytes>>
    /\ UNCHANGED <<rxVars, outFrames, sessVars>>
    /\ UNCHANGED estVars

\* a send loop that reports a failed sendall and asks for the next command
\* (the code's loop breaks): what C16 rules out
SendallGoesOn(ok) ==
    /\ lateIO' = (lateIO \/ closing)
    /\ IF ok
       THEN /\ ~connClosed
            /\ outFrames' = outFrames + 1
            /\ lastCmd' = "sent"
       ELSE /\ lastCmd' = "sendfail"
            /\ UNCHANGED outFrames
    /\ mainpc' = "input"
    /\ UNCHANGED closing
    /\ txBytes' = <<>>

\* what a sendall call does: it returns (the socket object is open), or it
\* raises and the loop is left
Sendall(ok) ==
    /\ lateIO' = (lateIO \/ closing)
    /\ IF ok
       THEN /\ ~connClosed
            /\ outFrames' = outFrames + 1
            /\ mainpc' = "input"
            /\ lastCmd' = "sent"
            /\ UNCHANGED closing
       ELSE /\ mainpc' = "finally"
            /\ lastCmd' = "sendfail"
            /\ closing' = TRUE
            /\ UNCHANGED outFrames
    /\ txBytes' = <<>>

\* lines 216-221
MainSendallFile(ok) ==
    /\ proc = "running"
    /\ mainpc = "sendFile"
    /\ Sendall(ok)
    /\ UNCHANGED <<rxVars, connClosed, closeCalls, proc>>
    /\ UNCHANGED estVars

\* lines 228-232
MainSendallText(ok) ==
    /\ proc = "running"
    /\ mainpc = "sendText"
    /\ Sendall(ok)
    /\ UNCHANGED <<rxVars, connClosed, closeCalls, proc>>
    /\ UNCHANGED estVars

\* lines 235-239
MainFinally ==
    /\ proc = "running"
    /\ mainpc = "finally"
    /\ mainpc' = "done"
    /\ connClosed' = TRUE
    /\ closeCalls' = closeCalls + 1
    /\ UNCHANGED <<rxVars, txBytes, outFrames, lastCmd, closing, lateIO, proc>>
    /\ UNCHANGED estVars

\* the script ends: the interpreter exits and takes the daemon thread of
\* line 178 with it, wherever that thread is
MainExit ==
    /\ proc = "running"
    /\ mainpc = "done"
    /\ proc' = "main_exit"
    /\ UNCHANGED <<rxVars, mainVars, connClosed, closeCalls, closing, lateIO>>
    /\ UNCHANGED estVars

(***************************************************************************)
(* Connection setup in the listener role (lines 106-114).  The socket      *)
(* listens from line 110 until the process ends: it is closed nowhere.     *)
(***************************************************************************)
\* a remote host connects to the listening port: the socket queues the
\* attempt while it has room for it, else the attempt is turned away
InboundAttempt ==
    /\ proc = "running"
    /\ attempts < MaxAttempts
    /\ attempts' = attempts + 1
    /\ backlog' = IF Len(backlog) < ListenBacklog
                  THEN Append(backlog, attempts + 1)
                  ELSE backlog
    /\ UNCHANGED <<setup, accepted, connection>>
    /\ UNCHANGED <<rxVars, mainVars, sessVars>>

\* a listener that goes on accepting, as a server's accept loop would (the
\* code calls accept once): what C14 rules out
AcceptAgain ==
    /\ proc = "running"
    /\ setup \in {"accept", "established"}
    /\ backlog # <<>>
    /\ accepted' = Append(accepted, Head(backlog))
    /\ connection' = Head(backlog)
    /\ backlog' = Tail(backlog)
    /\ setup' = "established"
    /\ UNCHANGED attempts
    /\ UNCHANGED <<rxVars, mainVars, sessVars>>

\* lines 112-114: accept() returns the oldest queued attempt, and its
\* socket becomes connection; the script goes on to start the threads
Accept ==
    /\ proc = "running"
    /\ setup = "accept"
    /\ backlog # <<>>
    /\ accepted' = Append(accepted, Head(backlog))
    /\ connection' = Head(backlog)
    /\ backlog' = Tail(backlog)
    /\ setup' = "established"
    /\ UNCHANGED attempts
    /\ UNCHANGED <<rxVars, mainVars, sessVars>>

Next ==
    \/ \E f \in SessionFrames \cup {BinaryFrame} : PeerSend(f, MaxSessionFrames)
    \/ \E f \in SessionFrames : \E k \in 1..(Len(f.bytes) - 1) : PeerDrop(f, k, MaxSessionFrames)
    \/ PeerClose
    \/ \E n \in 1..Min(Len(inWire), RecvSize) : RxRecvData(n)
    \/ RxRecvEOF
    \/ RxRecvError
    \/ \E n \in 1..Min(Len(inWire), MoreSize) : RxMoreData(n)
    \/ RxMoreEOF
    \/ RxMoreError
    \/ \E o \in Plain \cup {GpgFail} : RxGpgFile(o)
    \/ \E o \in Plain \cup {GpgFail} : RxGpgText(o)
    \/ RxClose
    \/ RxExit
    \/ MainEmpty
    \/ MainQuit
    \/ MainInterrupt
    \/ MainSendUsage
    \/ \E filepath \in LocalPaths, p \in Plain, res \in FileResults :
           MainSendFile(filepath, p, res)
    \/ \E p \in Plain, res \in TextResults : MainText(p, res)
    \/ \E ok \in BOOLEAN : MainSendallFile(ok)
    \/ \E ok \in BOOLEAN : MainSendallText(ok)
    \/ MainFinally
    \/ MainExit

Spec == Init /\ [][Next]_vars

(***************************************************************************)
(* The receive path on its own: the peer writes and closes, the receiver   *)
(* thread runs, the local user types nothing.                              *)
(***************************************************************************)
RxNext ==
    \/ \E f \in PeerFrames : PeerSend(f, MaxPeerFrames)
    \/ \E f \in DroppedFrames : \E k \in 1..(Len(f.bytes) - 1) : PeerDrop(f, k, MaxPeerFrames)
    \/ PeerClose
    \/ \E n \in 1..Min(Len(inWire), RecvSize) : RxRecvData(n)
    \/ RxRecvEOF
    \/ RxRecvError
    \/ \E n \in 1..Min(Len(inWire), MoreSize) : RxMoreData(n)
    \/ RxMoreEOF
    \/ RxMoreError
    \/ \E o \in Plain \cup {GpgFail} : RxGpgFile(o)
    \/ \E o \in Plain \cup {GpgFail} : RxGpgText(o)
    \/ RxClose
    \/ RxExit

SpecRx == Init /\ [][RxNext]_vars

(***************************************************************************)
(* The receive path's decoding of one frame: any one frame of CodecFrames  *)
(* is in flight, and the receiver thread reads it in any chunking.         *)
(***************************************************************************)
CodecInit ==
    /\ \E f \in CodecFrames : sent = <<f>> /\ inWire = f.bytes
    /\ peerOpen = TRUE
    /\ truncated = FALSE
    /\ rxpc = "recv"
    /\ recvLive = TRUE
    /\ rxUnit = NoUnit
    /\ rxOutcome = "none"
    /\ nRead = 0
    /\ unitRead = 0
    /\ failedOnce = FALSE
    /\ mainpc = "input"
    /\ txBytes = <<>>
    /\ outFrames = 0
    /\ lastCmd = "none"
    /\ connClosed = FALSE
    /\ closeCalls = 0
    /\ closing = FALSE
    /\ lateIO = FALSE
    /\ proc = "running"
    /\ setup = "established"
    /\ attempts = 1
    /\ backlog = <<>>
    /\ accepted = <<1>>
    /\ connection = 1

CodecNext ==
    \/ \E n \in 1..Min(Len(inWire), RecvSize) : RxRecvData(n)
    \/ \E n \in 1..Min(Len(inWire), MoreSize) : RxMoreData(n)
    \/ \E o \in Plain \cup {GpgFail} : RxGpgFile(o)
    \/ \E o \in Plain \cup {GpgFail} : RxGpgText(o)

SpecCodec == CodecInit /\ [][CodecNext]_vars

(***************************************************************************)
(* The listener's whole life: it waits in accept, the session runs and     *)
(* ends (the peer closes or the network fails, the user types, quits or    *)
(* interrupts), and remote hosts keep connecting to the port meanwhile.    *)
(***************************************************************************)
ListenInit ==
    /\ inWire = <<>>
    /\ sent = <<>>
    /\ peerOpen = TRUE
    /\ truncated = FALSE
    /\ rxpc = "recv"
    /\ recvLive = TRUE
    /\ rxUnit = NoUnit
    /\ rxOutcome = "none"
    /\ nRead = 0
    /\ unitRead = 0
    /\ failedOnce = FALSE
    /\ mainpc = "input"
    /\ txBytes = <<>>
    /\ outFrames = 0
    /\ lastCmd = "none"
    /\ connClosed = FALSE
    /\ closeCalls = 0
    /\ closing = FALSE
    /\ lateIO = FALSE
    /\ proc = "running"
    /\ setup = "accept"
    /\ attempts = 0
    /\ backlog = <<>>
    /\ accepted = <<>>
    /\ connection = 0

ListenNext ==
    \/ InboundAttempt
    \/ Accept
    \/ setup = "established" /\ PeerClose
    \/ setup = "established" /\ RxRecvEOF
    \/ setup = "established" /\ RxRecvError
    \/ setup = "established" /\ RxClose
    \/ setup = "established" /\ RxExit
    \/ setup = "established" /\ MainEmpty
    \/ setup = "established" /\ MainQuit
    \/ setup = "established" /\ MainInterrupt
    \/ setup = "established" /\ MainFinally
    \/ setup = "established" /\ MainExit

SpecListen == ListenInit /\ [][ListenNext]_vars

(***************************************************************************)
(* Vocabulary of the properties.                                           *)
(***************************************************************************)
\* gpg is running on rxUnit: the unit has been handed to a consumer
Pending == rxpc \in {"gpgFile", "gpgText"}

\* the stream offset at which the bytes read for rxUnit begin
ReadStart == nRead - unitRead

\* the bytes read so far end where the k-th frame ends
EndsFrame(k) == FrameEnd(sent, k) = nRead

\* what is handed to gpg is the k-th frame: its kind, its filename, its payload
HandedFrame(k) ==
    /\ rxUnit.kind = sent[k].kind
    /\ rxUnit.filename = sent[k].filename
    /\ rxUnit.cipher = sent[k].payload

\* rxUnit was made from one recv() result (the follow-up read did not run)
OneRead == unitRead = Len(rxUnit.data)

\* one recv() returned exactly the bytes of the k-th frame, and rxUnit was
\* made from them
ReadIsFrame(k) == OneRead /\ FrameEnd(sent, k - 1) = ReadStart /\ EndsFrame(k)

\* no frame ends strictly inside the bytes read for rxUnit
NoFrameEndInside ==
    \A k \in 1..Len(sent) :
        ~(ReadStart < FrameEnd(sent, k) /\ FrameEnd(sent, k) < nRead)

(***************************************************************************)
(* C1. Incremental delivery: however the stream splits a frame's bytes     *)
(* across reads, whatever the receive path hands to gpg is one complete    *)
(* frame, the one that ends where the bytes read so far end; after a chunk *)
(* that does not complete a frame nothing is handed over.  (Stated for the *)
(* reads that hold bytes of one frame only, on a stream that was not cut.) *)
(***************************************************************************)
C1_OnlyCompleteFramesHanded ==
    (Pending /\ ~truncated /\ NoFrameEndInside)
        => \E k \in 1..Len(sent) : EndsFrame(k) /\ HandedFrame(k)

(***************************************************************************)
(* C2. Ordering: when one read begins at a frame boundary and ends at a    *)
(* frame boundary, what is handed to gpg is exactly one frame, the next    *)
(* one in the order the peer wrote them; a read that holds the end of f1   *)
(* and the start of f2 is not handed over as one unit.                     *)
(***************************************************************************)
C2_FramesHandedOneByOne ==
    (/\ Pending
     /\ OneRead
     /\ \E j \in 0..Len(sent) : FrameEnd(sent, j) = ReadStart
     /\ \E k \in 1..Len(sent) : EndsFrame(k))
        => \E k \in 1..Len(sent) : ReadIsFrame(k) /\ HandedFrame(k)

(***************************************************************************)
(* C3. Receive-buffer conservation: every byte recv() returned for a unit  *)
(* is in the data the unit is made from; in particular the bytes of the    *)
(* follow-up read of the file branch are not dropped.                      *)
(***************************************************************************)
C3_ReadBytesConserved == Pending => unitRead = Len(rxUnit.data)

(***************************************************************************)
(* C4. Round-trip: when the bytes the send path wrote for a frame arrive   *)
(* in one read, the receive path hands over the frame's kind, its filename *)
(* and its payload bytes, and takes exactly the frame's bytes.             *)
(***************************************************************************)
C4_RoundTrip ==
    \A k \in 1..Len(sent) :
        (Pending /\ ReadIsFrame(k))
            => HandedFrame(k) /\ rxUnit.data = sent[k].bytes

(***************************************************************************)
(* C5. Crypto isolation: a gpg failure on one received unit, text or file, *)
(* leaves the receiver thread in its loop, waiting in recv on an open      *)
(* connection of a running process; and when a corrupted frame was         *)
(* followed by a valid one and the receiver has read and handled all their *)
(* bytes, the valid frame has been opened to its plaintext.                *)
(***************************************************************************)
C5_CryptoFailureIsolated ==
    /\ rxOutcome = GpgFail
        => rxpc = "recv" /\ ~connClosed /\ closeCalls = 0 /\ proc = "running"
    /\ (/\ Len(sent) = 2
        /\ ~truncated
        /\ sent[1].payload = Corrupt
        /\ sent[2].payload \in ValidCiphers
        /\ nRead = FrameEnd(sent, 2)
        /\ rxpc = "recv"
        /\ rxOutcome \notin {"none", "pending"})
            => rxOutcome = PlainOf(sent[2].payload)

\* What the handlers of lines 162-163 and 167-170 do guarantee, under SpecRx:
\* a gpg failure leaves the receiver thread in its loop on an open
\* connection, and a valid frame that one recv() returns whole is opened to
\* its plaintext, whatever failed before it.
FailureHandlingIsLocal ==
    /\ rxOutcome = GpgFail
        => rxpc = "recv" /\ ~connClosed /\ closeCalls = 0 /\ proc = "running"
    /\ \A k \in 1..Len(sent) :
        (/\ rxpc = "recv"
         /\ rxOutcome \notin {"none", "pending"}
         /\ ReadIsFrame(k)
         /\ sent[k].payload \in ValidCiphers)
            => rxOutcome = PlainOf(sent[k].payload)

(***************************************************************************)
(* C6. Filename sanitization: for a file-transfer frame received whole,    *)
(* the name gpg is told to write the decrypted file to holds no path       *)
(* separator, whatever name the peer declared.                             *)
(***************************************************************************)
C6_WrittenNameIsBare ==
    (rxpc = "gpgFile" /\ \E k \in 1..Len(sent) : ReadIsFrame(k))
        => \A i \in 1..Len(rxUnit.filename) : rxUnit.filename[i] # "/"

(***************************************************************************)
(* C7. The connection is closed exactly once: close is never called twice, *)
(* and it has been called once when the process has ended.                 *)
(***************************************************************************)
C7_ClosedExactlyOnce ==
    /\ closeCalls <= 1
    /\ proc # "running" => closeCalls = 1

(***************************************************************************)
(* C8. Once the session is closing (a quit request, an EOF or a stream     *)
(* error has occurred) neither thread issues a new recv or sendall.        *)
(***************************************************************************)
C8_NoIOAfterClosing == ~lateIO

(***************************************************************************)
(* C9. Cancellation: after a local quit request the process does not end   *)
(* while the receiver thread is still at work on received bytes.           *)
(***************************************************************************)
C9_NoExitMidWork ==
    (proc = "main_exit" /\ lastCmd = "quit")
        => rxpc \notin {"gpgFile", "gpgText", "more"}

(***************************************************************************)
(* C10. When the peer's stream ends inside a frame, no byte of the cut     *)
(* frame is handed to gpg (neither to decryption nor to a file write).     *)
(***************************************************************************)
C10_CutFrameNeverHanded ==
    (truncated /\ Pending) => nRead <= FrameEnd(sent, Len(sent) - 1)

(***************************************************************************)
(* C11. A framing error is fatal: once a read has returned bytes that are  *)
(* no well-formed frame and the receive path is done with them, the        *)
(* session is closing and the receiver thread neither reads again nor      *)
(* treats them as one more failed unit of a session that goes on.          *)
(***************************************************************************)
C11_FramingErrorIsFatal ==
    (/\ \E k \in 1..Len(sent) : sent[k].kind = "malformed" /\ ReadIsFrame(k)
     /\ rxOutcome # "pending")
        => closing /\ rxpc \notin {"recv", "more"}

(***************************************************************************)
(* C12. Single writer, single reader: a step that writes to the stream is  *)
(* a step of the send loop at one of its sendall calls and no step of the  *)
(* receiver thread; a step that reads from the stream, or that handles     *)
(* received bytes, is a step of the receiver thread and leaves the send    *)
(* loop's state alone.                                                     *)
(***************************************************************************)
C12_SingleWriterSingleReader ==
    [][/\ outFrames' # outFrames
            => /\ mainpc \in {"sendFile", "sendText"}
               /\ mainpc' # mainpc
               /\ UNCHANGED <<rxpc, nRead, unitRead, rxUnit, rxOutcome>>
       /\ (nRead' # nRead \/ rxUnit' # rxUnit \/ rxOutcome' # rxOutcome)
            => /\ rxpc \in {"recv", "more", "gpgFile", "gpgText"}
               /\ rxpc' # rxpc
               /\ UNCHANGED mainVars]_vars

\* both paths have acted: bytes were read and handled, and a frame was written
C12_BothPathsActed == nRead > 0 /\ rxOutcome \in Plain /\ outFrames > 0

(***************************************************************************)
(* C13. Send-side errors are local to the command: a /send that names a    *)
(* missing or unreadable file, and a failed encryption of a file or a text *)
(* message, write nothing, queue nothing for writing, leave the connection *)
(* as it was, and leave the send loop waiting for the next command.        *)
(***************************************************************************)
SendErrors == {"notfound", "readfail", "encfail"}

C16_FailedWriteEndsSendPath ==
    lastCmd = "sendfail"
        => /\ mainpc \in {"finally", "done"}
           /\ txBytes = <<>>
           /\ (mainpc = "finally" /\ proc = "running") => ENABLED MainFinally
           /\ mainpc = "done" => connClosed /\ closeCalls >= 1

\* a write failed and the send loop has closed the connection
C16_ClosedAfterFailedWrite == lastCmd = "sendfail" /\ mainpc = "done" /\ connClosed

(***************************************************************************)
(* C15. However the receiver thread stops, the session ends with it: in no *)
(* step taken after the thread has ended does the send loop complete a     *)
(* write on the connection.                                                *)
(***************************************************************************)
C15_NoWriteAfterReceiverStopped ==
    [][rxpc = "dead" => outFrames' = outFrames]_vars

(***************************************************************************)
(* C14. The listener accepts one inbound connection in its whole life:     *)
(* accept() never returns a second attempt, and once a peer is accepted    *)
(* the session's stream is that peer's socket and no later one's.          *)
(***************************************************************************)
C14_OneInboundAccepted ==
    /\ Len(accepted) <= 1
    /\ setup = "established" => accepted = <<1>> /\ connection = 1
    /\ setup = "accept" => accepted = <<>> /\ connection = 0

\* the session has come and gone, and a later attempt still waits unaccepted
C14_LaterAttemptLeftWaiting ==
    accepted = <<1>> /\ attempts > 1 /\ backlog # <<>> /\ proc # "running"

====
